---- MODULE Spec2Model ----
(***************************************************************************)
(* Model of src/food_safety_analysis.py: a linear script that loads an     *)
(* outbreak table, cleans it, aggregates it, encodes and splits it, fits a *)
(* tree ensemble and a network, tunes the tree ensemble and inspects the   *)
(* network's errors.  Every module-level name of the script that a later   *)
(* statement reads is a variable; pc is the next statement group.          *)
(***************************************************************************)
EXTENDS Integers, Sequences, FiniteSets, TLC

VARIABLES pc, df, df_cleaned, illness_trend, top_foods, top_locations,
          top_states, df_model, le_dict, X_train, X_test, y_train, y_test,
          model, y_pred, model_pkl, df_dl, X_scaled, rf_random,
          y_pred_tuned, cm, exception, tree_split, arg_y_true, arg_y_pred,
          ret_cm

vars == <<pc, df, df_cleaned, illness_trend, top_foods, top_locations,
          top_states, df_model, le_dict, X_train, X_test, y_train, y_test,
          model, y_pred, model_pkl, df_dl, X_scaled, rf_random,
          y_pred_tuned, cm, exception, tree_split, arg_y_true, arg_y_pred,
          ret_cm>>

\* Groups of names a statement group leaves alone.
eda_names == <<illness_trend, top_foods, top_locations, top_states>>
split_names == <<X_train, X_test, y_train, y_test>>
tree_names == <<df_model, model_pkl, tree_split>>
network_names == <<df_dl, X_scaled>>
search_names == <<rf_random, y_pred_tuned>>
harness_names == <<arg_y_true, arg_y_pred, ret_cm>>

(***************************************************************************)
(* Bounds of the model.                                                    *)
(***************************************************************************)
\* Largest number of rows of outbreaks.csv in the full run.
MaxRows == 5
\* Largest number of rows of outbreaks.csv in the cleaning-stage runs.
MaxRowsClean == 2
\* Largest number of rows of outbreaks.csv in the descriptive-analytics runs.
MaxRowsEDA == 3
\* Longest label sequence handed to confusion_matrix on its own.
MaxLabels == 4

(***************************************************************************)
(* Cells.  A cell is missing (NaN) or holds one value.                     *)
(***************************************************************************)
NaN == <<>>
Val(v) == <<v>>
isna(c) == c = NaN
Get(c) == c[1]

Range(s) == {s[i] : i \in DOMAIN s}

(***************************************************************************)
(* Strings are ordered as Python orders them: by code point, left to       *)
(* right, a proper prefix first.                                           *)
(***************************************************************************)
Ord ==
  [s \in {"Beef", "Chicken", "Unknown", "CA", "TX", "May", "June", "July",
          "Restaurant", "Home", "Egg", "Salmonella", "Enteritidis",
          "Confirmed"} |->
     CASE s = "Beef"        -> <<66, 101, 101, 102>>
       [] s = "Chicken"     -> <<67, 104, 105, 99, 107, 101, 110>>
       [] s = "Unknown"     -> <<85, 110, 107, 110, 111, 119, 110>>
       [] s = "CA"          -> <<67, 65>>
       [] s = "TX"          -> <<84, 88>>
       [] s = "May"         -> <<77, 97, 121>>
       [] s = "June"        -> <<74, 117, 110, 101>>
       [] s = "July"        -> <<74, 117, 108, 121>>
       [] s = "Restaurant"  -> <<82, 101, 115, 116, 97, 117, 114, 97, 110, 116>>
       [] s = "Home"        -> <<72, 111, 109, 101>>
       [] s = "Egg"         -> <<69, 103, 103>>
       [] s = "Salmonella"  -> <<83, 97, 108, 109, 111, 110, 101, 108, 108, 97>>
       [] s = "Enteritidis" -> <<69, 110, 116, 101, 114, 105, 116, 105, 100, 105, 115>>
       [] s = "Confirmed"   -> <<67, 111, 110, 102, 105, 114, 109, 101, 100>>]

LexLess(a, b) ==
  \E i \in 1..Len(b) :
     /\ \A j \in 1..(i - 1) : j <= Len(a) /\ a[j] = b[j]
     /\ (i > Len(a) \/ a[i] < b[i])

StrLess(s, t) == LexLess(Ord[s], Ord[t])

\* sorted(set(values)): the strings of S in ascending order.
RECURSIVE SortedLabels(_)
SortedLabels(S) ==
  IF S = {} THEN <<>>
  ELSE LET m == CHOOSE x \in S : \A z \in S \ {x} : StrLess(x, z)
       IN  <<m>> \o SortedLabels(S \ {m})

\* Position of v in the sequence s (0 when absent).
IndexOf(s, v) ==
  IF \E i \in DOMAIN s : s[i] = v
  THEN CHOOSE i \in DOMAIN s : s[i] = v /\ \A j \in 1..(i - 1) : s[j] # v
  ELSE 0

(***************************************************************************)
(* Tables.  A DataFrame is its rows in order, each a function from column  *)
(* name to cell, and the categories of every column of dtype category.     *)
(* The row at position i carries the index label i - 1.                    *)
(***************************************************************************)
categorical_cols ==
  <<"Location", "Food", "Ingredient", "Species", "Serotype/Genotype", "Status">>

\* Variant of numeric_fill_cols that leaves Hospitalizations out.
numeric_fill_cols_fatalities_only == <<"Fatalities">>

numeric_fill_cols == <<"Hospitalizations", "Fatalities">>

category_dtype_cols == categorical_cols \o <<"State", "Month">>

features == <<"Year", "Month", "State", "Location", "Food">>

target == "Hospitalized"

RawColumns ==
  {"Year", "Month", "State", "Location", "Food", "Ingredient", "Species",
   "Serotype/Genotype", "Status", "Illnesses", "Hospitalizations",
   "Fatalities"}

NoCategories == [c \in {} |-> <<>>]

DataFrame(rows, categories) == [rows |-> rows, categories |-> categories]

\* A name of the script that is not bound yet.
Unbound == DataFrame(<<>>, NoCategories)

RawRow(year, month, state, location, food, ingredient, species, serotype, status, illnesses, hospitalizations, fatalities) ==
  [c \in RawColumns |->
     CASE c = "Year"              -> year
       [] c = "Month"             -> month
       [] c = "State"             -> state
       [] c = "Location"          -> location
       [] c = "Food"              -> food
       [] c = "Ingredient"        -> ingredient
       [] c = "Species"           -> species
       [] c = "Serotype/Genotype" -> serotype
       [] c = "Status"            -> status
       [] c = "Illnesses"         -> illnesses
       [] c = "Hospitalizations"  -> hospitalizations
       [] c = "Fatalities"        -> fatalities]

\* Variant of fillna that overwrites every cell of cols, missing or not.
fillna_overwriting(frame, cols, value) ==
  DataFrame([i \in DOMAIN frame.rows |->
               [c \in DOMAIN frame.rows[i] |->
                  IF c \in Range(cols) THEN Val(value)
                  ELSE frame.rows[i][c]]],
            frame.categories)

\* frame[cols].fillna(value) written back into frame[cols].
fillna(frame, cols, value) ==
  DataFrame([i \in DOMAIN frame.rows |->
               [c \in DOMAIN frame.rows[i] |->
                  IF c \in Range(cols) /\ isna(frame.rows[i][c])
                  THEN Val(value)
                  ELSE frame.rows[i][c]]],
            frame.categories)

\* The distinct non-missing values of a column.
Observed(frame, col) ==
  {Get(frame.rows[i][col]) : i \in {j \in DOMAIN frame.rows :
                                       ~isna(frame.rows[j][col])}}

\* frame[col].astype('category') for every col of cols: the values stay, the
\* column's categories become its sorted distinct non-missing values.
astype_category(frame, cols) ==
  DataFrame(frame.rows,
            [c \in DOMAIN frame.categories \cup Range(cols) |->
               IF c \in Range(cols) THEN SortedLabels(Observed(frame, c))
               ELSE frame.categories[c]])

\* Variant of hospitalized_of that tests x >= 0.
hospitalized_of_nonnegative(x) == IF ~isna(x) /\ Get(x) >= 0 THEN 1 ELSE 0

\* lambda x: 1 if x > 0 else 0 (a comparison with NaN is False).
hospitalized_of(x) == IF ~isna(x) /\ Get(x) > 0 THEN 1 ELSE 0

\* frame[new] = frame[col].apply(f)
AddHospitalized(frame) ==
  DataFrame([i \in DOMAIN frame.rows |->
               [c \in DOMAIN frame.rows[i] \cup {target} |->
                  IF c = target
                  THEN Val(hospitalized_of(frame.rows[i]["Hospitalizations"]))
                  ELSE frame.rows[i][c]]],
            frame.categories)

(***************************************************************************)
(* The values a name holds before the script binds it.                     *)
(***************************************************************************)
NoArray == [kind |-> "None", index |-> <<>>, values |-> <<>>]

NoModel == [class |-> "None", fit_X |-> NoArray, fit_y |-> NoArray]

NoEncoders == [c \in {} |-> <<>>]

NoSplit ==
  [X_train |-> NoArray, X_test |-> NoArray, y_train |-> NoArray,
   y_test |-> NoArray]

\* The state in which the statement group start runs next, outbreaks.csv
\* having been read as table, with arguments yt, yp for confusion_matrix
\* called on its own.
Start(start, table, yt, yp) ==
  /\ pc = start
  /\ exception = "None"
  /\ df = DataFrame(table, NoCategories)
  /\ df_cleaned = Unbound
  /\ illness_trend = <<>>
  /\ top_foods = <<>>
  /\ top_locations = <<>>
  /\ top_states = <<>>
  /\ df_model = Unbound
  /\ le_dict = NoEncoders
  /\ X_train = NoArray
  /\ X_test = NoArray
  /\ y_train = NoArray
  /\ y_test = NoArray
  /\ model = NoModel
  /\ y_pred = <<>>
  /\ model_pkl = NoModel
  /\ df_dl = Unbound
  /\ X_scaled = NoArray
  /\ rf_random = NoModel
  /\ y_pred_tuned = <<>>
  /\ cm = <<>>
  /\ tree_split = NoSplit
  /\ arg_y_true = yt
  /\ arg_y_pred = yp
  /\ ret_cm = <<>>

\* The state after df = pd.read_csv("outbreaks.csv") returned table.
Loaded(table) == Start("copy_raw", table, <<>>, <<>>)

\* All tables of 1..n rows drawn from rows.
Tables(rows, n) == UNION {[1..k -> rows] : k \in 1..n}

\* The statement groups in the order the script runs them.
ProgramOrder ==
  <<"copy_raw", "fillna_categorical", "fillna_numeric", "astype_category",
    "derive_hospitalized", "illness_trend", "top_foods", "top_locations",
    "top_states", "copy_model", "encode_tree", "split_tree", "fit_tree",
    "predict_tree", "save_model", "copy_dl", "encode_dl", "scale",
    "split_dl", "build_network", "fit_network", "predict_network",
    "fit_search", "predict_tuned", "predict_prob", "confusion_matrix",
    "done">>

\* The statement group named p has run to its end.
Finished(p) ==
  /\ pc \in Range(ProgramOrder)
  /\ IndexOf(ProgramOrder, pc) > IndexOf(ProgramOrder, p)

\* The statement group at pc runs next.
At(p) == pc = p /\ exception = "None"

(***************************************************************************)
(* Cleaning (lines 20-35).                                                 *)
(***************************************************************************)
\* df_cleaned = df.copy()
CopyRaw ==
  /\ At("copy_raw")
  /\ df_cleaned' = df
  /\ pc' = "fillna_categorical"
  /\ UNCHANGED <<df, eda_names, tree_names, le_dict, split_names, model,
                 y_pred, network_names, search_names, cm, exception,
                 harness_names>>

\* df_cleaned[categorical_cols] = df_cleaned[categorical_cols].fillna('Unknown')
FillCategorical ==
  /\ At("fillna_categorical")
  /\ df_cleaned' = fillna(df_cleaned, categorical_cols, "Unknown")
  /\ pc' = "fillna_numeric"
  /\ UNCHANGED <<df, eda_names, tree_names, le_dict, split_names, model,
                 y_pred, network_names, search_names, cm, exception,
                 harness_names>>

\* df_cleaned[['Hospitalizations', 'Fatalities']] = ....fillna(0)
FillNumeric ==
  /\ At("fillna_numeric")
  /\ df_cleaned' = fillna(df_cleaned, numeric_fill_cols, 0)
  /\ pc' = "astype_category"
  /\ UNCHANGED <<df, eda_names, tree_names, le_dict, split_names, model,
                 y_pred, network_names, search_names, cm, exception,
                 harness_names>>

\* for col in categorical_cols + ['State', 'Month']: astype('category')
AsTypeCategory ==
  /\ At("astype_category")
  /\ df_cleaned' = astype_category(df_cleaned, category_dtype_cols)
  /\ pc' = "derive_hospitalized"
  /\ UNCHANGED <<df, eda_names, tree_names, le_dict, split_names, model,
                 y_pred, network_names, search_names, cm, exception,
                 harness_names>>

\* df_cleaned['Hospitalized'] = df_cleaned['Hospitalizations'].apply(...)
DeriveHospitalized ==
  /\ At("derive_hospitalized")
  /\ df_cleaned' = AddHospitalized(df_cleaned)
  /\ pc' = "illness_trend"
  /\ UNCHANGED <<df, eda_names, tree_names, le_dict, split_names, model,
                 y_pred, network_names, search_names, cm, exception,
                 harness_names>>

(***************************************************************************)
(* The cleaning stage on its own, over tables whose cells are missing,     *)
(* already "Unknown" or ordinary in every column.                          *)
(***************************************************************************)
BaseRow ==
  RawRow(Val(2010), Val("May"), Val("CA"), Val("Restaurant"), Val("Chicken"),
         Val("Egg"), Val("Salmonella"), Val("Enteritidis"), Val("Confirmed"),
         Val(10), Val(2), Val(0))

RowsClean ==
  {[BaseRow EXCEPT ![c] = v] :
      c \in Range(categorical_cols), v \in {NaN, Val("Unknown")}}
  \cup {[c \in RawColumns |->
           IF c \in Range(categorical_cols) THEN v ELSE BaseRow[c]] :
           v \in {NaN, Val("Unknown")}}
  \cup {[BaseRow EXCEPT !["Hospitalizations"] = h, !["Fatalities"] = f] :
           h \in {NaN, Val(0), Val(1), Val(2)}, f \in {NaN, Val(0)}}
  \cup {[BaseRow EXCEPT ![c] = NaN] :
           c \in {"Year", "Month", "State", "Illnesses"}}

InitClean == \E t \in Tables(RowsClean, MaxRowsClean) : Loaded(t)

NextClean ==
  \/ CopyRaw
  \/ FillCategorical
  \/ FillNumeric
  \/ AsTypeCategory
  \/ DeriveHospitalized

SpecClean == InitClean /\ [][NextClean]_vars

(***************************************************************************)
(* Descriptive analytics (lines 45-56).  Plotting reads these values and   *)
(* changes none of them.                                                   *)
(***************************************************************************)
Min(a, b) == IF a < b THEN a ELSE b

\* The integers of S in ascending order.
RECURSIVE SortedInts(_)
SortedInts(S) ==
  IF S = {} THEN <<>>
  ELSE LET m == CHOOSE x \in S : \A z \in S : x <= z
       IN  <<m>> \o SortedInts(S \ {m})

\* Sum of column col over the rows at positions I, missing cells skipped.
RECURSIVE SumOver(_, _, _)
SumOver(frame, col, I) ==
  IF I = {} THEN 0
  ELSE LET i == CHOOSE x \in I : TRUE
           v == IF isna(frame.rows[i][col]) THEN 0 ELSE Get(frame.rows[i][col])
       IN  v + SumOver(frame, col, I \ {i})

\* s.head(n)
head(s, n) == SubSeq(s, 1, Min(n, Len(s)))

\* The orders sort_values(ascending=False) may return for the entries
\* keys[i] -> count[keys[i]]: descending in count; the default sort kind is
\* quicksort, which leaves the order of equal counts to numpy.
SortedDescending(keys, count) ==
  {[i \in DOMAIN s |-> [key |-> s[i], count |-> count[s[i]]]] :
     s \in {t \in [DOMAIN keys -> Range(keys)] :
              /\ \A i, j \in DOMAIN t : i # j => t[i] # t[j]
              /\ \A i, j \in DOMAIN t : i < j => count[t[i]] >= count[t[j]]}}

\* frame.groupby('Year')[['Illnesses', 'Hospitalizations']].sum().reset_index()
groupby_year_sum(frame) ==
  LET years == SortedInts(Observed(frame, "Year"))
  IN  [k \in DOMAIN years |->
         LET I == {i \in DOMAIN frame.rows : frame.rows[i]["Year"] = Val(years[k])}
         IN  [Year |-> years[k],
              Illnesses |-> SumOver(frame, "Illnesses", I),
              Hospitalizations |-> SumOver(frame, "Hospitalizations", I)]]

\* frame[frame['Hospitalized'] == 1][col].value_counts(): col has dtype
\* category, so every category of the column has an entry, also one that no
\* selected row holds (count 0).
hospitalized_value_counts(frame, col) ==
  LET cats == frame.categories[col]
      count == [v \in Range(cats) |->
                  Cardinality({i \in DOMAIN frame.rows :
                                 /\ frame.rows[i][target] = Val(1)
                                 /\ frame.rows[i][col] = Val(v)})]
  IN  SortedDescending(cats, count)

\* frame.groupby('State')['Illnesses'].sum().sort_values(ascending=False)
state_illness_sums(frame) ==
  LET cats == frame.categories["State"]
      total == [v \in Range(cats) |->
                  SumOver(frame, "Illnesses",
                          {i \in DOMAIN frame.rows : frame.rows[i]["State"] = Val(v)})]
  IN  SortedDescending(cats, total)

\* illness_trend = df_cleaned.groupby('Year')[...].sum().reset_index()
IllnessTrend ==
  /\ At("illness_trend")
  /\ illness_trend' = groupby_year_sum(df_cleaned)
  /\ pc' = "top_foods"
  /\ UNCHANGED <<df, df_cleaned, top_foods, top_locations, top_states,
                 tree_names, le_dict, split_names, model, y_pred,
                 network_names, search_names, cm, exception, harness_names>>

\* top_foods = df_cleaned[df_cleaned['Hospitalized'] == 1]['Food'].value_counts().head(10)
TopFoods ==
  /\ At("top_foods")
  /\ \E s \in hospitalized_value_counts(df_cleaned, "Food") :
        top_foods' = head(s, 10)
  /\ pc' = "top_locations"
  /\ UNCHANGED <<df, df_cleaned, illness_trend, top_locations, top_states,
                 tree_names, le_dict, split_names, model, y_pred,
                 network_names, search_names, cm, exception, harness_names>>

\* top_locations = df_cleaned[df_cleaned['Hospitalized'] == 1]['Location'].value_counts().head(10)
TopLocations ==
  /\ At("top_locations")
  /\ \E s \in hospitalized_value_counts(df_cleaned, "Location") :
        top_locations' = head(s, 10)
  /\ pc' = "top_states"
  /\ UNCHANGED <<df, df_cleaned, illness_trend, top_foods, top_states,
                 tree_names, le_dict, split_names, model, y_pred,
                 network_names, search_names, cm, exception, harness_names>>

\* top_states = df_cleaned.groupby('State')['Illnesses'].sum().sort_values(ascending=False).head(10)
TopStates ==
  /\ At("top_states")
  /\ \E s \in state_illness_sums(df_cleaned) : top_states' = head(s, 10)
  /\ pc' = "copy_model"
  /\ UNCHANGED <<df, df_cleaned, illness_trend, top_foods, top_locations,
                 tree_names, le_dict, split_names, model, y_pred,
                 network_names, search_names, cm, exception, harness_names>>

(***************************************************************************)
(* Cleaning and descriptive analytics, over the rows of the three-row      *)
(* scenario and their variants with Food or Hospitalizations missing or 0. *)
(***************************************************************************)
ScenarioA ==
  <<RawRow(Val(2010), Val("May"), Val("CA"), Val("Restaurant"), Val("Chicken"),
           Val("Egg"), Val("Salmonella"), Val("Enteritidis"), Val("Confirmed"),
           Val(10), Val(2), Val(0)),
    RawRow(Val(2011), Val("June"), Val("TX"), Val("Home"), Val("Beef"),
           Val("Egg"), Val("Salmonella"), Val("Enteritidis"), Val("Confirmed"),
           Val(5), Val(0), Val(0)),
    RawRow(Val(2012), Val("July"), Val("CA"), Val("Restaurant"), Val("Chicken"),
           Val("Egg"), Val("Salmonella"), Val("Enteritidis"), Val("Confirmed"),
           Val(3), Val(1), Val(0))>>

RowsEDA ==
  {[ScenarioA[k] EXCEPT !["Food"] = f, !["Hospitalizations"] = h] :
      k \in 1..2,
      f \in {NaN, Val("Chicken"), Val("Beef")},
      h \in {NaN, Val(0), Val(2)}}
  \cup {ScenarioA[3]}

InitEDA == \E t \in Tables(RowsEDA, MaxRowsEDA) : Loaded(t)

NextEDA ==
  \/ CopyRaw
  \/ FillCategorical
  \/ FillNumeric
  \/ AsTypeCategory
  \/ DeriveHospitalized
  \/ IllnessTrend
  \/ TopFoods
  \/ TopLocations
  \/ TopStates

SpecEDA == InitEDA /\ [][NextEDA]_vars

(***************************************************************************)
(* Label encoding (sklearn.preprocessing.LabelEncoder).                    *)
(***************************************************************************)
\* le.fit(column): classes_ = the sorted distinct values of the column.
LabelEncoder_fit(frame, col) == SortedLabels(Observed(frame, col))

\* Variant of LabelEncoder_transform that counts codes from 1.
LabelEncoder_transform_from_one(classes, v) == IndexOf(classes, v)

\* le.transform(v): the position of v in classes_, counted from 0.
LabelEncoder_transform(classes, v) == IndexOf(classes, v) - 1

\* le.inverse_transform(code) = classes_[code]
LabelEncoder_inverse_transform(classes, code) == classes[code + 1]

\* The columns of features that the loop of lines 91-95 (139-144) encodes:
\* those of dtype category.
EncodedColumns(frame) == Range(features) \cap DOMAIN frame.categories

\* frame after the loop: every encoded column holds its integer codes and is
\* no longer of dtype category.
encode_frame(frame) ==
  DataFrame([i \in DOMAIN frame.rows |->
               [c \in DOMAIN frame.rows[i] |->
                  IF c \in EncodedColumns(frame)
                  THEN Val(LabelEncoder_transform(LabelEncoder_fit(frame, c),
                                                  Get(frame.rows[i][c])))
                  ELSE frame.rows[i][c]]],
            [c \in DOMAIN frame.categories \ EncodedColumns(frame) |->
               frame.categories[c]])

\* le_dict after the loop: the classes_ of the encoder of every encoded column.
encoders_of(frame) ==
  [c \in EncodedColumns(frame) |-> LabelEncoder_fit(frame, c)]

(***************************************************************************)
(* Numbers of a feature matrix.  A number is num / sqrt(rad) with rad > 0, *)
(* so that the standardized values of StandardScaler are exact.            *)
(***************************************************************************)
Whole(x) == [num |-> x, rad |-> 1]

Sign(x) == IF x > 0 THEN 1 ELSE IF x < 0 THEN -1 ELSE 0

\* a and b are the same real number.
RealEq(a, b) ==
  /\ Sign(a.num) = Sign(b.num)
  /\ a.num * a.num * b.rad = b.num * b.num * a.rad

\* frame[features] as a matrix: one row of five numbers per row of frame.
feature_matrix(frame) ==
  [i \in DOMAIN frame.rows |->
     [j \in DOMAIN features |-> Whole(Get(frame.rows[i][features[j]]))]]

\* frame[target] as a vector of labels.
target_vector(frame) ==
  [i \in DOMAIN frame.rows |-> Get(frame.rows[i][target])]

(***************************************************************************)
(* train_test_split(X, y, test_size=0.3, random_state=seed): ShuffleSplit  *)
(* draws numpy.random.RandomState(seed).permutation(n).  RandomState is    *)
(* MT19937; mt19937_low_bytes is the low byte of its successive 32-bit     *)
(* outputs, which is all that random_interval reads for n <= 256.          *)
(***************************************************************************)
mt19937_low_bytes(seed) ==
  CASE seed = 42 ->
         <<102, 179, 92, 14, 106, 71, 188, 20, 102, 121, 210, 214, 74, 202,
           87, 116, 99, 103, 151, 130, 149, 52, 1, 87, 235, 157, 37, 129,
           191, 187, 20, 160>>
    [] seed = 0 ->
         <<172, 47, 117, 192, 67, 251, 195, 103, 9, 211, 21, 242, 36, 87,
           70, 216, 88, 140, 58, 193, 230, 39, 87, 174, 88, 81, 165, 25, 77,
           72, 9, 148>>

\* The smallest 2^k - 1 that is >= max.
RECURSIVE MaskFrom(_, _)
MaskFrom(m, max) == IF m >= max THEN m ELSE MaskFrom(2 * m + 1, max)

\* random_interval(max): draw, mask, and draw again while the value is > max.
\* Returns the value and the position of the next unread output.
RECURSIVE random_interval(_, _, _)
random_interval(stream, pos, max) ==
  IF max = 0 THEN [value |-> 0, pos |-> pos]
  ELSE LET v == stream[pos] % (MaskFrom(1, max) + 1)
       IN  IF v <= max THEN [value |-> v, pos |-> pos + 1]
           ELSE random_interval(stream, pos + 1, max)

\* shuffle: for i = n-1 down to 1, swap a[i] and a[random_interval(i)]
\* (a is indexed from 0 in the source, from 1 here).
RECURSIVE shuffle_from(_, _, _, _)
shuffle_from(a, i, stream, pos) ==
  IF i < 1 THEN a
  ELSE LET r == random_interval(stream, pos, i)
           j == r.value
       IN  shuffle_from([a EXCEPT ![i + 1] = a[j + 1], ![j + 1] = a[i + 1]],
                        i - 1, stream, r.pos)

\* RandomState(seed).permutation(n) = shuffle(arange(n))
permutation(seed, n) ==
  shuffle_from([k \in 1..n |-> k - 1], n - 1, mt19937_low_bytes(seed), 1)

\* test_size=0.3 as a fraction.
test_size_num == 3
test_size_den == 10

\* n_test = ceil(test_size * n), n_train = floor((1 - test_size) * n).
n_test_of(n) == (test_size_num * n + test_size_den - 1) \div test_size_den
n_train_of(n) == ((test_size_den - test_size_num) * n) \div test_size_den

\* The index labels of the test and of the train partition of n rows.
shuffle_split(n, seed) ==
  LET p == permutation(seed, n)
  IN  [test |-> SubSeq(p, 1, n_test_of(n)),
       train |-> SubSeq(p, n_test_of(n) + 1, n_test_of(n) + n_train_of(n))]

\* arr[idx]: the rows of arr at the index labels idx, keeping the labels
\* when arr carries an index.
take(kind, values, idx) ==
  [kind |-> kind,
   index |-> IF kind = "ndarray" THEN <<>> ELSE idx,
   values |-> [k \in DOMAIN idx |-> values[idx[k] + 1]]]

\* Variant of random_state_dl: another seed for the second split.
random_state_dl_other == 42 - 42

\* random_state of the split of line 100 and of the split of line 155.
random_state_tree == 42
random_state_dl == 42

(***************************************************************************)
(* Tree model (lines 82-123).                                              *)
(***************************************************************************)
\* df_model = df_cleaned.copy()
CopyModel ==
  /\ At("copy_model")
  /\ df_model' = df_cleaned
  /\ pc' = "encode_tree"
  /\ UNCHANGED <<df, df_cleaned, eda_names, model_pkl, tree_split, le_dict,
                 split_names, model, y_pred, network_names, search_names, cm,
                 exception, harness_names>>

\* Variant of EncodeTree that encodes df_cleaned itself (df_model an alias).
EncodeTreeInPlace ==
  /\ At("encode_tree")
  /\ le_dict' = encoders_of(df_model)
  /\ df_model' = encode_frame(df_model)
  /\ df_cleaned' = encode_frame(df_model)
  /\ pc' = "split_tree"
  /\ UNCHANGED <<df, eda_names, model_pkl, tree_split, split_names,
                 model, y_pred, network_names, search_names, cm, exception,
                 harness_names>>

\* le_dict = {}; for col in features: if category: fit_transform, le_dict[col] = le
EncodeTree ==
  /\ At("encode_tree")
  /\ le_dict' = encoders_of(df_model)
  /\ df_model' = encode_frame(df_model)
  /\ pc' = "split_tree"
  /\ UNCHANGED <<df, df_cleaned, eda_names, model_pkl, tree_split, split_names,
                 model, y_pred, network_names, search_names, cm, exception,
                 harness_names>>

\* X = df_model[features]; y = df_model[target]; train_test_split(X, y, ...).
\* With a single row the train partition is empty and the call raises.
SplitTree ==
  /\ At("split_tree")
  /\ LET n == Len(df_model.rows)
         s == shuffle_split(n, random_state_tree)
         parts == [X_train |-> take("DataFrame", feature_matrix(df_model), s.train),
                   X_test |-> take("DataFrame", feature_matrix(df_model), s.test),
                   y_train |-> take("Series", target_vector(df_model), s.train),
                   y_test |-> take("Series", target_vector(df_model), s.test)]
     IN  IF n_train_of(n) = 0
         THEN /\ exception' = "ValueError"
              /\ UNCHANGED <<pc, split_names, tree_split>>
         ELSE /\ X_train' = parts.X_train
              /\ X_test' = parts.X_test
              /\ y_train' = parts.y_train
              /\ y_test' = parts.y_test
              /\ tree_split' = parts
              /\ pc' = "fit_tree"
              /\ UNCHANGED exception
  /\ UNCHANGED <<df, df_cleaned, eda_names, df_model, model_pkl, le_dict, model,
                 y_pred, network_names, search_names, cm, harness_names>>

\* model = RandomForestClassifier(n_estimators=100, random_state=42); model.fit(X_train, y_train)
FitTree ==
  /\ At("fit_tree")
  /\ model' = [class |-> "RandomForestClassifier", fit_X |-> X_train,
               fit_y |-> y_train]
  /\ pc' = "predict_tree"
  /\ UNCHANGED <<df, df_cleaned, eda_names, tree_names, le_dict, split_names,
                 y_pred, network_names, search_names, cm, exception,
                 harness_names>>

\* The label vectors a fitted forest may return for rows: one label per row,
\* each a class it was fitted on.
forest_predictions(fit_y, rows) == [DOMAIN rows.values -> Range(fit_y.values)]

\* y_pred = model.predict(X_test)
PredictTree ==
  /\ At("predict_tree")
  /\ y_pred' \in forest_predictions(model.fit_y, X_test)
  /\ pc' = "save_model"
  /\ UNCHANGED <<df, df_cleaned, eda_names, tree_names, le_dict, split_names,
                 model, network_names, search_names, cm, exception,
                 harness_names>>

\* pickle.dump(model, open('model.pkl', 'wb'))
SaveModel ==
  /\ At("save_model")
  /\ model_pkl' = model
  /\ pc' = "copy_dl"
  /\ UNCHANGED <<df, df_cleaned, eda_names, df_model, tree_split, le_dict,
                 split_names, model, y_pred, network_names, search_names, cm,
                 exception, harness_names>>

(***************************************************************************)
(* Network model (lines 134-175).                                          *)
(***************************************************************************)
RECURSIVE SumSeq(_)
SumSeq(s) == IF s = <<>> THEN 0 ELSE Head(s) + SumSeq(Tail(s))

\* One column of StandardScaler().fit_transform(X): (x - mean) / std with the
\* population std, and std taken as 1 for a constant column.  With
\* d = x - min(column), (x - mean) / std = (n d - sum d) / sqrt(n sum d^2 -
\* (sum d)^2), exactly.
scale_column(c) ==
  LET n == Len(c)
      low == CHOOSE m \in Range(c) : \A z \in Range(c) : m <= z
      S == SumSeq([i \in 1..n |-> c[i] - low])
      SS == SumSeq([i \in 1..n |-> (c[i] - low) * (c[i] - low)])
      rad == n * SS - S * S
  IN  [i \in 1..n |->
         IF rad = 0 THEN Whole(0)
         ELSE [num |-> n * (c[i] - low) - S, rad |-> rad]]

\* StandardScaler().fit_transform(X): every column scaled on its own.
standard_scale(X) ==
  LET scaled == <<scale_column([i \in DOMAIN X |-> X[i][1].num]),
                  scale_column([i \in DOMAIN X |-> X[i][2].num]),
                  scale_column([i \in DOMAIN X |-> X[i][3].num]),
                  scale_column([i \in DOMAIN X |-> X[i][4].num]),
                  scale_column([i \in DOMAIN X |-> X[i][5].num])>>
  IN  [i \in DOMAIN X |-> [j \in DOMAIN scaled |-> scaled[j][i]]]

\* df_dl = df_cleaned.copy()
CopyDl ==
  /\ At("copy_dl")
  /\ df_dl' = df_cleaned
  /\ pc' = "encode_dl"
  /\ UNCHANGED <<df, df_cleaned, eda_names, tree_names, le_dict, split_names,
                 model, y_pred, X_scaled, search_names, cm, exception,
                 harness_names>>

\* le_dict = {}; for col in features: if category: fit_transform, le_dict[col] = le
EncodeDl ==
  /\ At("encode_dl")
  /\ le_dict' = encoders_of(df_dl)
  /\ df_dl' = encode_frame(df_dl)
  /\ pc' = "scale"
  /\ UNCHANGED <<df, df_cleaned, eda_names, tree_names, split_names, model,
                 y_pred, X_scaled, search_names, cm, exception, harness_names>>

\* X = df_dl[features]; scaler = StandardScaler(); X_scaled = scaler.fit_transform(X)
Scale ==
  /\ At("scale")
  /\ X_scaled' = [kind |-> "ndarray", index |-> <<>>,
                  values |-> standard_scale(feature_matrix(df_dl))]
  /\ pc' = "split_dl"
  /\ UNCHANGED <<df, df_cleaned, eda_names, tree_names, le_dict, split_names,
                 model, y_pred, df_dl, search_names, cm, exception,
                 harness_names>>

\* y = df_dl[target]; X_train, X_test, y_train, y_test = train_test_split(X_scaled, y, ...)
SplitDl ==
  /\ At("split_dl")
  /\ LET s == shuffle_split(Len(X_scaled.values), random_state_dl)
     IN  /\ X_train' = take("ndarray", X_scaled.values, s.train)
         /\ X_test' = take("ndarray", X_scaled.values, s.test)
         /\ y_train' = take("Series", target_vector(df_dl), s.train)
         /\ y_test' = take("Series", target_vector(df_dl), s.test)
  /\ pc' = "build_network"
  /\ UNCHANGED <<df, df_cleaned, eda_names, tree_names, le_dict, model,
                 y_pred, network_names, search_names, cm, exception,
                 harness_names>>

\* Variant of BuildNetwork that dumps model to model.pkl after rebinding it.
BuildNetworkAndSave ==
  /\ At("build_network")
  /\ model' = [class |-> "Sequential", fit_X |-> NoArray, fit_y |-> NoArray]
  /\ model_pkl' = model'
  /\ pc' = "fit_network"
  /\ UNCHANGED <<df, df_cleaned, eda_names, df_model, tree_split, le_dict,
                 split_names, y_pred, network_names, search_names, cm,
                 exception, harness_names>>

\* model = Sequential([...]); model.compile(...)
BuildNetwork ==
  /\ At("build_network")
  /\ model' = [class |-> "Sequential", fit_X |-> NoArray, fit_y |-> NoArray]
  /\ pc' = "fit_network"
  /\ UNCHANGED <<df, df_cleaned, eda_names, tree_names, le_dict, split_names,
                 y_pred, network_names, search_names, cm, exception,
                 harness_names>>

\* validation_split=0.2 as a fraction.
validation_split_num == 2
validation_split_den == 10

\* Keras splits the training rows at floor(n * (1 - validation_split)).
validation_split_at(n) ==
  ((validation_split_den - validation_split_num) * n) \div validation_split_den

\* history = model.fit(X_train, y_train, epochs=50, batch_size=32,
\* validation_split=0.2, verbose=0).  Keras raises when either side of the
\* validation split is empty.
FitNetwork ==
  /\ At("fit_network")
  /\ LET n == Len(X_train.values)
     IN  IF validation_split_at(n) = 0 \/ validation_split_at(n) = n
         THEN /\ exception' = "ValueError"
              /\ UNCHANGED <<pc, model>>
         ELSE /\ model' = [class |-> "Sequential", fit_X |-> X_train,
                           fit_y |-> y_train]
              /\ pc' = "predict_network"
              /\ UNCHANGED exception
  /\ UNCHANGED <<df, df_cleaned, eda_names, tree_names, le_dict, split_names,
                 y_pred, network_names, search_names, cm, harness_names>>

\* The label vectors the thresholded network output may be: one label of
\* {0, 1} per row.
network_predictions(rows) == [DOMAIN rows.values -> {0, 1}]

\* y_pred = (model.predict(X_test) > 0.5).astype("int32")
PredictNetwork ==
  /\ At("predict_network")
  /\ y_pred' \in network_predictions(X_test)
  /\ pc' = "fit_search"
  /\ UNCHANGED <<df, df_cleaned, eda_names, tree_names, le_dict, split_names,
                 model, network_names, search_names, cm, exception,
                 harness_names>>

(***************************************************************************)
(* Hyperparameter search (lines 179-205).                                  *)
(***************************************************************************)
\* cv=3
n_splits == 3

\* Number of rows of labels that carry label c.
class_count(labels, c) == Cardinality({i \in DOMAIN labels : labels[i] = c})

\* StratifiedKFold(n_splits) raises when n_splits is greater than the number
\* of members of every class.
stratified_kfold_raises(labels) ==
  \A c \in Range(labels) : n_splits > class_count(labels, c)

\* rf_random = RandomizedSearchCV(rf, ..., cv=3, ...); rf_random.fit(X_train, y_train):
\* X_train and y_train are whatever the names hold when the line runs.
FitSearch ==
  /\ At("fit_search")
  /\ IF stratified_kfold_raises(y_train.values)
     THEN /\ exception' = "ValueError"
          /\ UNCHANGED <<pc, rf_random>>
     ELSE /\ rf_random' = [class |-> "RandomizedSearchCV", fit_X |-> X_train,
                           fit_y |-> y_train]
          /\ pc' = "predict_tuned"
          /\ UNCHANGED exception
  /\ UNCHANGED <<df, df_cleaned, eda_names, tree_names, le_dict, split_names,
                 model, y_pred, network_names, y_pred_tuned, cm, harness_names>>

\* best_model = rf_random.best_estimator_; y_pred_tuned = best_model.predict(X_test)
PredictTuned ==
  /\ At("predict_tuned")
  /\ y_pred_tuned' \in forest_predictions(rf_random.fit_y, X_test)
  /\ pc' = "predict_prob"
  /\ UNCHANGED <<df, df_cleaned, eda_names, tree_names, le_dict, split_names,
                 model, y_pred, network_names, rf_random, cm, exception,
                 harness_names>>

(***************************************************************************)
(* Error inspection (lines 233-273).                                       *)
(***************************************************************************)
\* y_pred_prob = model.predict(X_test); y_pred = (y_pred_prob > 0.5).astype(int):
\* the fitted network is a function of its input, so the labels are those
\* of line 173.
PredictProb ==
  /\ At("predict_prob")
  /\ y_pred' = y_pred
  /\ pc' = "confusion_matrix"
  /\ UNCHANGED <<df, df_cleaned, eda_names, tree_names, le_dict, split_names,
                 model, network_names, search_names, cm, exception,
                 harness_names>>

\* sklearn.metrics.confusion_matrix(y_true, y_pred) with labels=None: the
\* labels are the sorted values that occur in y_true or y_pred, and entry
\* [a][p] counts the positions with y_true = labels[a] and y_pred = labels[p].
confusion_matrix(y_true, y_pred_) ==
  LET labels == SortedInts(Range(y_true) \cup Range(y_pred_))
  IN  [a \in DOMAIN labels |->
         [p \in DOMAIN labels |->
            Cardinality({i \in DOMAIN y_true :
                           y_true[i] = labels[a] /\ y_pred_[i] = labels[p]})]]

\* cm = confusion_matrix(y_test, y_pred)
ConfusionMatrix ==
  /\ At("confusion_matrix")
  /\ cm' = confusion_matrix(y_test.values, y_pred)
  /\ pc' = "done"
  /\ UNCHANGED <<df, df_cleaned, eda_names, tree_names, le_dict, split_names,
                 model, y_pred, network_names, search_names, exception,
                 harness_names>>

(***************************************************************************)
(* The whole script.                                                       *)
(***************************************************************************)
\* Outbreak rows of the full runs: one with a hospitalization, one without,
\* and one whose Location, Food and Hospitalizations are missing.
RowsRun ==
  {ScenarioA[1], ScenarioA[2]}
  \cup {RawRow(Val(2011), Val("May"), Val("TX"), NaN, NaN, NaN,
               Val("Salmonella"), NaN, Val("Confirmed"), Val(4), NaN, NaN)}

Init == \E t \in Tables(RowsRun, MaxRows) : Loaded(t)

Next ==
  \/ CopyRaw
  \/ FillCategorical
  \/ FillNumeric
  \/ AsTypeCategory
  \/ DeriveHospitalized
  \/ IllnessTrend
  \/ TopFoods
  \/ TopLocations
  \/ TopStates
  \/ CopyModel
  \/ EncodeTree
  \/ SplitTree
  \/ FitTree
  \/ PredictTree
  \/ SaveModel
  \/ CopyDl
  \/ EncodeDl
  \/ Scale
  \/ SplitDl
  \/ BuildNetwork
  \/ FitNetwork
  \/ PredictNetwork
  \/ FitSearch
  \/ PredictTuned
  \/ PredictProb
  \/ ConfusionMatrix

Spec == Init /\ [][Next]_vars

(***************************************************************************)
(* confusion_matrix on its own, over every pair of label sequences of the  *)
(* same length.                                                            *)
(***************************************************************************)
InitCM ==
  \E n \in 1..MaxLabels : \E yt, yp \in [1..n -> {0, 1}] :
     Start("call_confusion_matrix", <<>>, yt, yp)

CallConfusionMatrix ==
  /\ At("call_confusion_matrix")
  /\ ret_cm' = confusion_matrix(arg_y_true, arg_y_pred)
  /\ pc' = "returned"
  /\ UNCHANGED <<df, df_cleaned, eda_names, tree_names, le_dict, split_names,
                 model, y_pred, network_names, search_names, cm, exception,
                 arg_y_true, arg_y_pred>>

NextCM == CallConfusionMatrix

SpecCM == InitCM /\ [][NextCM]_vars

(***************************************************************************)
(* Properties.                                                             *)
(***************************************************************************)
Rows(frame) == DOMAIN frame.rows

\* The cleaning stage (lines 20-35) has run to its end.
Cleaned == Finished("derive_hospitalized")

\* C1: after the Cleaning stage every row has Hospitalized = 1 exactly when
\* its imputed Hospitalizations is > 0 and Hospitalized = 0 otherwise; a
\* Hospitalizations of 0 gives 0, of 1 gives 1, and a row whose raw
\* Hospitalizations was missing has Hospitalizations = 0 and Hospitalized = 0.
C1_HospitalizedIffPositive ==
  Cleaned =>
    \A i \in Rows(df_cleaned) :
       LET r == df_cleaned.rows[i]
       IN  /\ ~isna(r["Hospitalizations"])
           /\ r[target] \in {Val(0), Val(1)}
           /\ r[target] = Val(1) <=> Get(r["Hospitalizations"]) > 0
           /\ r["Hospitalizations"] = Val(0) => r[target] = Val(0)
           /\ r["Hospitalizations"] = Val(1) => r[target] = Val(1)
           /\ isna(df.rows[i]["Hospitalizations"]) =>
                 r["Hospitalizations"] = Val(0) /\ r[target] = Val(0)

\* A cleaned table with a row of each kind: raw Hospitalizations missing, 0,
\* and positive.
C1_Witness ==
  /\ Cleaned
  /\ \E i \in Rows(df) : isna(df.rows[i]["Hospitalizations"])
  /\ \E i \in Rows(df) :
        /\ df.rows[i]["Hospitalizations"] \in {Val(0), Val(1)}
        /\ df_cleaned.rows[i][target] = Val(hospitalized_of(df.rows[i]["Hospitalizations"]))

\* C2 as stated: after the Cleaning stage no cell of a categorical column is
\* missing, and it is "Unknown" if and only if the raw cell was missing.
C2_UnknownIffRawMissing ==
  Cleaned =>
    \A i \in Rows(df_cleaned) : \A c \in Range(categorical_cols) :
       /\ ~isna(df_cleaned.rows[i][c])
       /\ df_cleaned.rows[i][c] = Val("Unknown") <=> isna(df.rows[i][c])

\* C2 as the code has it: after the Cleaning stage no cell of a categorical
\* column is missing; a raw cell that was missing is "Unknown" and a raw cell
\* that held a string holds the same string, so the cleaned cell is
\* "Unknown" if and only if the raw cell was missing or already "Unknown".
C2_UnknownIffMissingOrUnknown ==
  Cleaned =>
    \A i \in Rows(df_cleaned) : \A c \in Range(categorical_cols) :
       /\ ~isna(df_cleaned.rows[i][c])
       /\ isna(df.rows[i][c]) => df_cleaned.rows[i][c] = Val("Unknown")
       /\ ~isna(df.rows[i][c]) => df_cleaned.rows[i][c] = df.rows[i][c]
       /\ df_cleaned.rows[i][c] = Val("Unknown")
            <=> (isna(df.rows[i][c]) \/ df.rows[i][c] = Val("Unknown"))

\* A cleaned table holding a raw cell that was missing, one that was already
\* "Unknown" and one that held another string.
C2_Witness ==
  /\ Cleaned
  /\ \E i \in Rows(df) : isna(df.rows[i]["Food"])
  /\ \E i \in Rows(df) : df.rows[i]["Status"] = Val("Unknown")
  /\ \E i \in Rows(df) : df.rows[i]["Food"] = Val("Chicken")

\* The raw table has a value wherever the schema gives no "may be absent":
\* Year, Month, State and Illnesses.
SchemaConformant ==
  \A i \in Rows(df) : \A c \in {"Year", "Month", "State", "Illnesses"} :
     ~isna(df.rows[i][c])

downstream_fields ==
  {"Year", "Month", "State", "Location", "Food", "Illnesses",
   "Hospitalizations", "Hospitalized"}

\* C3: for a raw table missing cells only where the schema allows, no row of
\* the cleaned table is missing a field a later stage uses.
C3_NoMissingDownstream ==
  (Cleaned /\ SchemaConformant) =>
    \A i \in Rows(df_cleaned) : \A c \in downstream_fields :
       c \in DOMAIN df_cleaned.rows[i] /\ ~isna(df_cleaned.rows[i][c])

\* A cleaned, schema-conformant table whose raw rows missed Location, Food
\* and Hospitalizations somewhere.
C3_Witness ==
  /\ Cleaned
  /\ SchemaConformant
  /\ \E i \in Rows(df) : isna(df.rows[i]["Food"]) /\ isna(df.rows[i]["Location"])
  /\ \E i \in Rows(df) : isna(df.rows[i]["Hospitalizations"])

\* Position of the first row with Hospitalized = 1 that holds Food v.
FirstHospitalizedRow(v) ==
  CHOOSE i \in Rows(df_cleaned) :
     /\ df_cleaned.rows[i][target] = Val(1) /\ df_cleaned.rows[i]["Food"] = Val(v)
     /\ \A j \in 1..(i - 1) :
          ~(df_cleaned.rows[j][target] = Val(1) /\ df_cleaned.rows[j]["Food"] = Val(v))

\* C5: the top-Food view holds only Food values of rows with Hospitalized =
\* 1, each with its number of such rows, at most 10 of them, in descending
\* count order with equal counts in first-encountered order; for the
\* three-row scenario it is exactly Chicken: 2.
C5_TopFoodsOnlyHospitalized ==
  Finished("top_foods") =>
    /\ Len(top_foods) <= 10
    /\ \A k \in DOMAIN top_foods :
          /\ top_foods[k].count >= 1
          /\ top_foods[k].count =
               Cardinality({i \in Rows(df_cleaned) :
                              /\ df_cleaned.rows[i][target] = Val(1)
                              /\ df_cleaned.rows[i]["Food"] = Val(top_foods[k].key)})
    /\ \A k, l \in DOMAIN top_foods :
          k < l => /\ top_foods[k].count >= top_foods[l].count
                   /\ top_foods[k].key # top_foods[l].key
                   /\ (top_foods[k].count = top_foods[l].count /\ top_foods[l].count >= 1)
                        => FirstHospitalizedRow(top_foods[k].key)
                             < FirstHospitalizedRow(top_foods[l].key)
    /\ df.rows = ScenarioA => top_foods = <<[key |-> "Chicken", count |-> 2]>>

\* C5 on the three-row scenario alone.
C5_ScenarioA ==
  (Finished("top_foods") /\ df.rows = ScenarioA) =>
     top_foods = <<[key |-> "Chicken", count |-> 2]>>

encoded_feature_columns == {"Month", "State", "Location", "Food"}

\* The encoders le and the encoded copy frame are a bijection for column c
\* between the values of df_cleaned[c] and 0..k-1, and decoding a row's code
\* gives back the row's value.
EncoderIsBijection(le, frame, c) ==
  LET values == Observed(df_cleaned, c)
      k == Cardinality(values)
      code(v) == LabelEncoder_transform(le[c], v)
  IN  /\ Range(le[c]) = values
      /\ Len(le[c]) = k
      /\ \A v, w \in values : v # w => code(v) # code(w)
      /\ {code(v) : v \in values} = 0..(k - 1)
      /\ \A i \in Rows(frame) :
            /\ Get(frame.rows[i][c]) = code(Get(df_cleaned.rows[i][c]))
            /\ Get(frame.rows[i][c]) \in 0..(k - 1)
            /\ LabelEncoder_inverse_transform(le[c], Get(frame.rows[i][c]))
                 = Get(df_cleaned.rows[i][c])

\* C4: on the tree path and on the network path, the encoder fitted on the
\* full column of each of Month, State, Location and Food is a bijection
\* between the column's distinct values and 0..k-1, and decoding the code of
\* any row returns the row's original value.
C4_EncodingIsBijection ==
  /\ (Finished("encode_tree") /\ ~Finished("encode_dl")) =>
        \A c \in encoded_feature_columns :
           c \in DOMAIN le_dict /\ EncoderIsBijection(le_dict, df_model, c)
  /\ Finished("encode_dl") =>
        \A c \in encoded_feature_columns :
           c \in DOMAIN le_dict /\ EncoderIsBijection(le_dict, df_dl, c)

\* Both paths have encoded a table whose Food column holds three distinct
\* values that first occur out of sorted order.
C4_Witness ==
  /\ Finished("encode_dl")
  /\ le_dict["Food"] = <<"Beef", "Chicken", "Unknown">>
  /\ df_cleaned.rows[1]["Food"] = Val("Unknown")
  /\ df_dl.rows[1]["Food"] = Val(2)
  /\ df_model.rows[1]["Food"] = Val(2)
  /\ Len(le_dict["Month"]) = 2

FittedTreeModel ==
  [class |-> "RandomForestClassifier", fit_X |-> tree_split.X_train,
   fit_y |-> tree_split.y_train]

\* C6: model.pkl holds the tree model fitted on the tree training partition:
\* it is written once the tree model is fitted and before model is rebound
\* to the network, nothing later overwrites it, and at the end of the run it
\* still holds the tree model and not the network.
C6_ArtifactIsTreeModel ==
  /\ ~Finished("save_model") => model_pkl = NoModel
  /\ At("save_model") => model = FittedTreeModel
  /\ Finished("save_model") =>
        model_pkl = FittedTreeModel /\ tree_split.X_train.kind = "DataFrame"
  /\ pc = "done" => model.class = "Sequential" /\ model_pkl.class # model.class

\* The run has ended with model rebound to the fitted network and the
\* artifact written.
C6_Witness ==
  /\ pc = "done"
  /\ model.class = "Sequential"
  /\ model_pkl.class = "RandomForestClassifier"
  /\ Len(model_pkl.fit_X.values) = 3

\* C7: for label sequences of the same length over {0, 1} the confusion
\* matrix is 2x2, entry [a][p] is the number of positions with y_test = a
\* and y_pred = p, the entries sum to the number of rows, and for
\* y_test = [0,1,1,0], y_pred = [0,1,0,0] it is [[2,0],[1,1]].
C7_ConfusionMatrixIs2x2Counts ==
  pc = "returned" =>
    /\ Len(ret_cm) = 2
    /\ \A a \in DOMAIN ret_cm : Len(ret_cm[a]) = 2
    /\ \A a, p \in {0, 1} :
          ret_cm[a + 1][p + 1] =
            Cardinality({i \in DOMAIN arg_y_true :
                           arg_y_true[i] = a /\ arg_y_pred[i] = p})
    /\ ret_cm[1][1] + ret_cm[1][2] + ret_cm[2][1] + ret_cm[2][2] = Len(arg_y_true)
    /\ (arg_y_true = <<0, 1, 1, 0>> /\ arg_y_pred = <<0, 1, 0, 0>>)
          => ret_cm = <<<<2, 0>>, <<1, 1>>>>

\* C7 on scenario B alone.
C7_ScenarioB ==
  (pc = "returned" /\ arg_y_true = <<0, 1, 1, 0>> /\ arg_y_pred = <<0, 1, 0, 0>>)
     => ret_cm = <<<<2, 0>>, <<1, 1>>>>

\* C7 in the run of the script: cm is 2x2.
C7_RunMatrixIs2x2 ==
  pc = "done" => Len(cm) = 2 /\ \A a \in DOMAIN cm : Len(cm[a]) = 2

\* C8 as stated: the test partition of the tree path's split and the test
\* partition of the network path's split hold different sets of row indices.
C8_TestPartitionsDiffer ==
  Finished("split_dl") =>
     Range(tree_split.X_test.index) # Range(y_test.index)

\* C8 as the code has it: both splits shuffle the same number of rows with
\* the same seed, so the test partitions (and the train partitions) of the
\* tree path and of the network path hold the same row indices in the same
\* order.
C8_TestPartitionsEqual ==
  Finished("split_dl") =>
     /\ y_test.index = tree_split.X_test.index
     /\ y_test.index = tree_split.y_test.index
     /\ y_train.index = tree_split.X_train.index
     /\ Range(tree_split.X_test.index) = Range(y_test.index)
     /\ Len(X_test.values) = Len(y_test.index)

\* Both splits are done over five rows: two test rows, three train rows.
C8_Witness ==
  /\ Finished("split_dl")
  /\ Len(df_cleaned.rows) = 5
  /\ y_test.index = <<1, 4>>
  /\ tree_split.y_test.index = <<1, 4>>
  /\ X_test.kind = "ndarray"
  /\ tree_split.X_test.kind = "DataFrame"

\* A and B hold the same numbers, row by row.
SameMatrix(A, B) ==
  /\ Len(A.values) = Len(B.values)
  /\ \A i \in DOMAIN A.values : \A j \in DOMAIN A.values[i] :
        RealEq(A.values[i][j], B.values[i][j])

\* C9: when the randomized search is fitted and its best estimator is
\* evaluated, X_train, y_train, X_test and y_test are the partitions of the
\* unscaled integer-encoded matrix that the tree classifier was trained and
\* evaluated on, not those of the scaled matrix.
C9_SearchUsesUnscaledPartitions ==
  (At("fit_search") \/ At("predict_tuned") \/ Finished("fit_search")) =>
     /\ SameMatrix(X_train, tree_split.X_train)
     /\ SameMatrix(X_test, tree_split.X_test)
     /\ y_train.values = tree_split.y_train.values
     /\ y_test.values = tree_split.y_test.values
     /\ Finished("fit_search") => SameMatrix(rf_random.fit_X, tree_split.X_train)

\* C10: df is never changed after it is loaded, df_cleaned is never changed
\* once the cleaning stage has finished, and the encoding of each path
\* writes into its own copy only.
C10_TablesImmutable ==
  [][/\ df' = df
     /\ Cleaned => /\ df_cleaned'.categories = df_cleaned.categories
                   /\ df_cleaned'.rows = df_cleaned.rows
     /\ pc = "encode_tree" => df_dl' = df_dl
     /\ pc = "encode_dl" => df_model' = df_model]_vars

\* Both paths have written codes into their copies, df_cleaned still holds
\* the category column, and df still holds the missing cell.
C10_Witness ==
  /\ Finished("encode_dl")
  /\ "Food" \in DOMAIN df_cleaned.categories
  /\ "Food" \notin DOMAIN df_model.categories
  /\ "Food" \notin DOMAIN df_dl.categories
  /\ \E i \in Rows(df) :
        /\ isna(df.rows[i]["Food"])
        /\ df_cleaned.rows[i]["Food"] = Val("Unknown")
        /\ df_model.rows[i]["Food"] = Val(IndexOf(le_dict["Food"], "Unknown") - 1)

====
